---- MODULE Spec2Model ----
(***************************************************************************)
(* wikipedia-demo: the request pipeline of main.go.                        *)
(*                                                                         *)
(*   requestLogger -> ServeMux -> handlerWithError(searchHandler |         *)
(*   indexHandler) | FileServer                                            *)
(*                                                                         *)
(* Every request is one goroutine; r ranges over the requests.  A          *)
(* request's position in the code is pc[r]; its locals are the other       *)
(* per-request variables.  globals holds the package-level variables.      *)
(* Strings that the code parses (the page parameter) are sequences of      *)
(* one-character strings.                                                  *)
(***************************************************************************)
EXTENDS Integers, Sequences, FiniteSets, TLC

VARIABLES
    pc,          \* r -> where the request's goroutine stands
    req,         \* r -> the inbound request: path, q, page (raw query value)
    nextPage,    \* r -> searchHandler's local nextPage (the parsed page)
    calls,       \* r -> number of HTTPClient.Get calls made for the request
    resp,        \* r -> the outbound exchange with the search API
    search,      \* r -> the Search value handed to the template
    buf,         \* r -> the bytes.Buffer the template renders into
    handlerErr,  \* r -> the error value the handler returned
    statusCode,  \* r -> loggingResponseWriter.statusCode
    sent,        \* r -> status committed by the underlying ResponseWriter (0: none)
    written,     \* r -> body bytes accepted by the ResponseWriter
    log,         \* r -> log entries carrying the request's correlation id
    globals      \* package-level variables: tpl, err

vars == <<pc, req, nextPage, calls, resp, search, buf, handlerErr,
          statusCode, sent, written, log, globals>>

----------------------------------------------------------------------------
(* Bounds and program constants *)

MaxHits == 61
MaxPageLen == 2
BodyLen == 2

PageSize == 20
StatusOK == 200
StatusNotFound == 404
StatusInternalServerError == 500

Reqs1 == {"r1"}
Reqs2 == {"r1", "r2"}

Digits == {"0", "1", "2", "3", "4", "5", "6", "7", "8", "9"}
PageChars == {"0", "1", "2", "3", "a", "-", "+"}
Paths == {"/", "/search", "/unknown", "/assets/style.css"}
Queries == {"go", "zap"}
Hits == -1 .. MaxHits

RECURSIVE StringsUpTo(_, _)
StringsUpTo(chars, n) ==
    IF n = 0 THEN {<<>>}
    ELSE LET shorter == StringsUpTo(chars, n - 1)
         IN  shorter \cup {Append(s, c) : s \in shorter, c \in chars}

PageStrings == StringsUpTo(PageChars, MaxPageLen)

\* The inputs of the two-request specification.
ConcPaths == {"/", "/search", "/unknown", "/assets/style.css"}
ConcPages == {<<>>, <<"2">>, <<"a">>}
ConcHits == {0, 55}

\* The inputs of the two-request specification with panics under fairness.
FaultQueries == {"go"}
FaultPages == {<<>>, <<"a">>}
FaultHits == {55}

----------------------------------------------------------------------------
(* Pure functions *)

DigitVal(c) ==
    CASE c = "0" -> 0 [] c = "1" -> 1 [] c = "2" -> 2 [] c = "3" -> 3
      [] c = "4" -> 4 [] c = "5" -> 5 [] c = "6" -> 6 [] c = "7" -> 7
      [] c = "8" -> 8 [] c = "9" -> 9

RECURSIVE Decimal(_)
Decimal(s) ==
    IF s = <<>> THEN 0
    ELSE 10 * Decimal(SubSeq(s, 1, Len(s) - 1)) + DigitVal(s[Len(s)])

\* A parse that falls back to page 1 instead of reporting the syntax error.
AtoiLenient(s) ==
    LET body == IF s # <<>> /\ s[1] \in {"+", "-"} THEN Tail(s) ELSE s
        good == body # <<>> /\ \A i \in 1 .. Len(body) : body[i] \in Digits
    IN  IF ~good THEN [ok |-> TRUE, val |-> 1]
        ELSE [ok |-> TRUE,
              val |-> IF s[1] = "-" THEN 0 - Decimal(body) ELSE Decimal(body)]

\* strconv.Atoi: an optional sign, then one or more decimal digits; anything
\* else is a syntax error.  (The range error needs 19 digits or more.)
Atoi(s) ==
    LET body == IF s # <<>> /\ s[1] \in {"+", "-"} THEN Tail(s) ELSE s
        good == body # <<>> /\ \A i \in 1 .. Len(body) : body[i] \in Digits
    IN  IF ~good THEN [ok |-> FALSE, val |-> 0]
        ELSE [ok |-> TRUE,
              val |-> IF s[1] = "-" THEN 0 - Decimal(body) ELSE Decimal(body)]

\* Integer division in place of the floating-point ceiling.
TotalPagesFloor(totalHits, pageSize) == totalHits \div pageSize

\* int(math.Ceil(float64(totalHits) / float64(pageSize))): the conversions and
\* the quotient are exact for |totalHits| < 2^53, so this is the ceiling of
\* the rational quotient.
TotalPagesOf(totalHits, pageSize) ==
    IF totalHits % pageSize = 0 THEN totalHits \div pageSize
    ELSE (totalHits \div pageSize) + 1

NoResp == [state |-> "none", srsearch |-> "", srlimit |-> 0, sroffset |-> 0,
           TotalHits |-> 0]

NoSearch == [built |-> FALSE, Query |-> "", TotalPages |-> 0, NextPage |-> 0,
             Results |-> NoResp]

\* The Search value with NextPage left at the requested page.
BuildSearchSamePage(searchQuery, searchResponse, pageSize, page) ==
    [built |-> TRUE,
     Query |-> searchQuery,
     Results |-> searchResponse,
     TotalPages |-> TotalPagesOf(searchResponse.TotalHits, pageSize),
     NextPage |-> page]

\* search := &Search{...} of searchHandler.
BuildSearch(searchQuery, searchResponse, pageSize, page) ==
    [built |-> TRUE,
     Query |-> searchQuery,
     Results |-> searchResponse,
     TotalPages |-> TotalPagesOf(searchResponse.TotalHits, pageSize),
     NextPage |-> page + 1]

IsLastPage(s) == s.NextPage >= s.TotalPages

CurrentPage(s) == IF s.NextPage = 1 THEN s.NextPage ELSE s.NextPage - 1

PreviousPage(s) == CurrentPage(s) - 1

\* http.ServeMux with the patterns "/assets/", "/search" and "/".
Mux(path) ==
    IF path = "/search" THEN "searchHandler"
    ELSE IF path = "/assets/style.css" THEN "fileServer"
    ELSE "indexHandler"

Entry(msg, status, err, query, page) ==
    [msg |-> msg, status |-> status, err |-> err, query |-> query, page |-> page]

\* The underlying ResponseWriter commits a status once; a later WriteHeader
\* is superfluous and ignored.
Commit(old, code) == IF old = 0 THEN code ELSE old

InitGlobals == [tpl |-> "index.html", err |-> "nil"]

----------------------------------------------------------------------------
(* State *)

InitFor(R) ==
    /\ pc = [r \in R |-> "idle"]
    /\ req = [r \in R |-> [path |-> "", q |-> "", page |-> <<>>]]
    /\ nextPage = [r \in R |-> 0]
    /\ calls = [r \in R |-> 0]
    /\ resp = [r \in R |-> NoResp]
    /\ search = [r \in R |-> NoSearch]
    /\ buf = [r \in R |-> [n |-> 0, complete |-> FALSE]]
    /\ handlerErr = [r \in R |-> "nil"]
    /\ statusCode = [r \in R |-> 0]
    /\ sent = [r \in R |-> 0]
    /\ written = [r \in R |-> 0]
    /\ log = [r \in R |-> <<>>]
    /\ globals = InitGlobals

Init == InitFor(Reqs1)

ConcInit == InitFor(Reqs2)

Set(f, r, v) == [f EXCEPT ![r] = v]

----------------------------------------------------------------------------
(* Actions *)

\* requestLogger up to next.ServeHTTP(lrw, r), and the mux's dispatch.
Arrive(r, paths, queries, pages) ==
    /\ pc[r] = "idle"
    /\ \E p \in paths, q \in queries, g \in pages :
          /\ req' = Set(req, r, [path |-> p, q |-> q, page |-> g])
          /\ pc' = Set(pc, r, Mux(p))
    /\ statusCode' = Set(statusCode, r, StatusOK)
    /\ UNCHANGED <<nextPage, calls, resp, search, buf, handlerErr, sent,
                   written, log, globals>>

\* searchHandler with nextPage and err assigned to package-level variables
\* instead of locals: every goroutine sees the last value stored.
SearchParseShared(r) ==
    /\ pc[r] = "searchHandler"
    /\ LET pageNum == IF req[r].page = <<>> THEN <<"1">> ELSE req[r].page
           a == Atoi(pageNum)
       IN  /\ log' = Set(log, r, Append(log[r],
                        Entry("incoming search query", 0, "nil", req[r].q, pageNum)))
           /\ globals' = [globals EXCEPT !.err = IF a.ok THEN "nil" ELSE "atoi"]
           /\ IF ~a.ok
              THEN /\ handlerErr' = Set(handlerErr, r, "atoi")
                   /\ pc' = Set(pc, r, "returned")
                   /\ UNCHANGED <<nextPage, resp, calls>>
              ELSE /\ nextPage' = [s \in DOMAIN nextPage |-> a.val]
                   /\ resp' = Set(resp, r, [state |-> "sent", srsearch |-> req[r].q,
                                            srlimit |-> PageSize,
                                            sroffset |-> (a.val - 1) * PageSize,
                                            TotalHits |-> 0])
                   /\ calls' = Set(calls, r, calls[r] + 1)
                   /\ pc' = Set(pc, r, "searchWikipedia")
                   /\ UNCHANGED handlerErr
    /\ UNCHANGED <<req, search, buf, statusCode, sent, written>>

\* searchHandler up to the HTTPClient.Get call inside searchWikipedia.
SearchParse(r) ==
    /\ pc[r] = "searchHandler"
    /\ LET pageNum == IF req[r].page = <<>> THEN <<"1">> ELSE req[r].page
           a == Atoi(pageNum)
       IN  /\ log' = Set(log, r, Append(log[r],
                        Entry("incoming search query", 0, "nil", req[r].q, pageNum)))
           /\ IF ~a.ok
              THEN /\ handlerErr' = Set(handlerErr, r, "atoi")
                   /\ pc' = Set(pc, r, "returned")
                   /\ UNCHANGED <<nextPage, resp, calls>>
              ELSE /\ nextPage' = Set(nextPage, r, a.val)
                   /\ resp' = Set(resp, r, [state |-> "sent", srsearch |-> req[r].q,
                                            srlimit |-> PageSize,
                                            sroffset |-> (a.val - 1) * PageSize,
                                            TotalHits |-> 0])
                   /\ calls' = Set(calls, r, calls[r] + 1)
                   /\ pc' = Set(pc, r, "searchWikipedia")
                   /\ UNCHANGED handlerErr
    /\ UNCHANGED <<req, search, buf, statusCode, sent, written, globals>>

\* The rest of searchWikipedia and the construction of the Search value.
UpstreamReturn(r, hits) ==
    /\ pc[r] = "searchWikipedia"
    /\ \/ \E e \in {"transport", "status", "read", "decode"} :
             /\ resp' = Set(resp, r, [resp[r] EXCEPT !.state = e])
             /\ handlerErr' = Set(handlerErr, r, e)
             /\ pc' = Set(pc, r, "returned")
             /\ UNCHANGED search
       \/ \E h \in hits :
             LET searchResponse == [resp[r] EXCEPT !.state = "ok", !.TotalHits = h]
             IN  /\ resp' = Set(resp, r, searchResponse)
                 /\ search' = Set(search, r,
                        BuildSearch(req[r].q, searchResponse, PageSize, nextPage[r]))
                 /\ pc' = Set(pc, r, "render")
                 /\ UNCHANGED handlerErr
    /\ UNCHANGED <<req, nextPage, calls, buf, statusCode, sent, written, log,
                   globals>>

\* indexHandler up to tpl.Execute.
IndexHandler(r) ==
    /\ pc[r] = "indexHandler"
    /\ IF req[r].path # "/"
       THEN /\ statusCode' = Set(statusCode, r, StatusNotFound)
            /\ sent' = Set(sent, r, Commit(sent[r], StatusNotFound))
            /\ written' = Set(written, r, written[r] + 1)
            /\ pc' = Set(pc, r, "returned")
       ELSE /\ pc' = Set(pc, r, "render")
            /\ UNCHANGED <<statusCode, sent, written>>
    /\ UNCHANGED <<req, nextPage, calls, resp, search, buf, handlerErr, log,
                   globals>>

\* tpl.Execute with the response as its writer: what the template has
\* produced before it fails is already on its way to the client.
RenderUnbuffered(r) ==
    /\ pc[r] = "render"
    /\ \/ /\ buf' = Set(buf, r, [n |-> BodyLen, complete |-> TRUE])
          /\ pc' = Set(pc, r, "write")
          /\ UNCHANGED <<handlerErr, sent, written>>
       \/ \E n \in 0 .. BodyLen - 1 :
             /\ buf' = Set(buf, r, [n |-> n, complete |-> FALSE])
             /\ sent' = Set(sent, r, IF n > 0 THEN Commit(sent[r], StatusOK) ELSE sent[r])
             /\ written' = Set(written, r, written[r] + n)
             /\ handlerErr' = Set(handlerErr, r, "render")
             /\ pc' = Set(pc, r, "returned")
    /\ UNCHANGED <<req, nextPage, calls, resp, search, statusCode, log, globals>>

\* tpl.Execute(buf, data) of searchHandler and indexHandler.
Render(r) ==
    /\ pc[r] = "render"
    /\ \/ /\ buf' = Set(buf, r, [n |-> BodyLen, complete |-> TRUE])
          /\ pc' = Set(pc, r, "write")
          /\ UNCHANGED handlerErr
       \/ \E n \in 0 .. BodyLen - 1 :
             /\ buf' = Set(buf, r, [n |-> n, complete |-> FALSE])
             /\ handlerErr' = Set(handlerErr, r, "render")
             /\ pc' = Set(pc, r, "returned")
    /\ UNCHANGED <<req, nextPage, calls, resp, search, statusCode, sent, written,
                   log, globals>>

\* buf.WriteTo(w): one Write of the whole buffer, which commits 200 and may
\* stop short with an error.
WriteBody(r) ==
    /\ pc[r] = "write"
    /\ sent' = Set(sent, r, Commit(sent[r], StatusOK))
    /\ \E n \in 0 .. buf[r].n :
          /\ written' = Set(written, r, written[r] + n)
          /\ IF n = buf[r].n
             THEN /\ UNCHANGED handlerErr
                  /\ log' = Set(log, r,
                        IF Mux(req[r].path) = "searchHandler"
                        THEN Append(log[r],
                               Entry("search query succeeded without errors", 0, "nil",
                                     req[r].q,
                                     IF req[r].page = <<>> THEN <<"1">> ELSE req[r].page))
                        ELSE log[r])
             ELSE /\ handlerErr' = Set(handlerErr, r, "write")
                  /\ UNCHANGED log
    /\ pc' = Set(pc, r, "returned")
    /\ UNCHANGED <<req, nextPage, calls, resp, search, buf, statusCode, globals>>

\* handlerWithError.ServeHTTP after fn(w, r) has returned.
ServeHTTPReturn(r) ==
    /\ pc[r] = "returned"
    /\ IF handlerErr[r] # "nil"
       THEN /\ log' = Set(log, r, Append(log[r],
                        Entry("server error", 0, handlerErr[r], "", <<>>)))
            /\ statusCode' = Set(statusCode, r, StatusInternalServerError)
            /\ sent' = Set(sent, r, Commit(sent[r], StatusInternalServerError))
            /\ written' = Set(written, r,
                              IF handlerErr[r] = "write" THEN written[r]
                              ELSE written[r] + 1)
       ELSE UNCHANGED <<log, statusCode, sent, written>>
    /\ pc' = Set(pc, r, "deferred")
    /\ UNCHANGED <<req, nextPage, calls, resp, search, buf, handlerErr, globals>>

\* http.FileServer under /assets/.
FileServer(r) ==
    /\ pc[r] = "fileServer"
    /\ \/ /\ sent' = Set(sent, r, Commit(sent[r], StatusOK))
          /\ written' = Set(written, r, written[r] + 1)
          /\ UNCHANGED statusCode
       \/ /\ statusCode' = Set(statusCode, r, StatusNotFound)
          /\ sent' = Set(sent, r, Commit(sent[r], StatusNotFound))
          /\ written' = Set(written, r, written[r] + 1)
    /\ pc' = Set(pc, r, "deferred")
    /\ UNCHANGED <<req, nextPage, calls, resp, search, buf, handlerErr, log,
                   globals>>

\* requestLogger's deferred function when nothing panicked; the server then
\* finishes the response (200 if no status was committed).
LogRequest(r) ==
    /\ pc[r] = "deferred"
    /\ log' = Set(log, r, Append(log[r],
                  Entry("incoming request", statusCode[r], "nil", "", <<>>)))
    /\ sent' = Set(sent, r, Commit(sent[r], StatusOK))
    /\ pc' = Set(pc, r, "done")
    /\ UNCHANGED <<req, nextPage, calls, resp, search, buf, handlerErr,
                   statusCode, written, globals>>

InHandlerChain == {"searchHandler", "searchWikipedia", "render", "write",
                   "indexHandler", "fileServer", "returned"}

\* A panic raised somewhere below next.ServeHTTP(lrw, r).
Panic(r) ==
    /\ pc[r] \in InHandlerChain
    /\ pc' = Set(pc, r, "panicking")
    /\ UNCHANGED <<req, nextPage, calls, resp, search, buf, handlerErr,
                   statusCode, sent, written, log, globals>>

\* The deferred function re-panics without touching the recorded status.
DeferredRecoverNoStatus(r) ==
    /\ pc[r] = "panicking"
    /\ pc' = Set(pc, r, "aborted")
    /\ UNCHANGED <<req, nextPage, calls, resp, search, buf, handlerErr,
                   statusCode, sent, written, log, globals>>

\* requestLogger's deferred function on a panic: record 500 and re-panic.
\* The server's per-connection recover ends this request's connection only.
DeferredRecover(r) ==
    /\ pc[r] = "panicking"
    /\ statusCode' = Set(statusCode, r, StatusInternalServerError)
    /\ pc' = Set(pc, r, "aborted")
    /\ UNCHANGED <<req, nextPage, calls, resp, search, buf, handlerErr,
                   sent, written, log, globals>>

\* The steps of a request's goroutine once the request has arrived.
Progress(r, hits) ==
    \/ SearchParse(r)
    \/ UpstreamReturn(r, hits)
    \/ IndexHandler(r)
    \/ Render(r)
    \/ WriteBody(r)
    \/ ServeHTTPReturn(r)
    \/ FileServer(r)
    \/ LogRequest(r)
    \/ DeferredRecover(r)

Step(r, paths, queries, pages, hits) ==
    \/ Arrive(r, paths, queries, pages)
    \/ SearchParse(r)
    \/ UpstreamReturn(r, hits)
    \/ IndexHandler(r)
    \/ Render(r)
    \/ WriteBody(r)
    \/ ServeHTTPReturn(r)
    \/ FileServer(r)
    \/ LogRequest(r)
    \/ Panic(r)
    \/ DeferredRecover(r)

Next == \E r \in Reqs1 : Step(r, Paths, Queries, PageStrings, Hits)

ConcNext == \E r \in Reqs2 : Step(r, ConcPaths, Queries, ConcPages, ConcHits)

FaultNext == \E r \in Reqs2 : Step(r, ConcPaths, FaultQueries, FaultPages, FaultHits)

\* One request at a time, every input of the bounded sets.
Spec == Init /\ [][Next]_vars

\* Two requests in flight at once.
ConcSpec == ConcInit /\ [][ConcNext]_vars

\* Two requests in flight at once, under the scheduling the runtime gives:
\* a goroutine that can take a step is eventually run, and the outbound call
\* returns (HTTPClient.Timeout).  Arrivals and panics are not forced.
FaultSpec ==
    /\ ConcInit
    /\ [][FaultNext]_vars
    /\ \A r \in Reqs2 : WF_vars(Progress(r, FaultHits))

----------------------------------------------------------------------------
(* Properties *)

AllReqs == DOMAIN pc

HasEntry(r, msg) == \E i \in 1 .. Len(log[r]) : log[r][i].msg = msg

EntryCount(r, msg) == Cardinality({i \in 1 .. Len(log[r]) : log[r][i].msg = msg})

\* A decimal integer as text: an optional sign followed by at least one digit.
IsBase10Integer(s) ==
    LET k == IF s # <<>> /\ s[1] \in {"+", "-"} THEN 2 ELSE 1
    IN  k <= Len(s) /\ \A i \in k .. Len(s) : s[i] \in Digits

ParamOrUpstreamOrRenderError ==
    {"atoi", "transport", "status", "read", "decode", "render"}

\* C1: for every totalHits >= 0 and page size 20, the Search value built by
\* searchHandler has TotalPages = ceil(totalHits / 20) (the least n with
\* 20 n >= totalHits), and TotalPages = 0 iff totalHits = 0.
C1_TotalPagesIsCeiling ==
    \A r \in AllReqs :
        (search[r].built /\ resp[r].TotalHits >= 0) =>
            LET tp == search[r].TotalPages
                h == resp[r].TotalHits
            IN  /\ tp * PageSize >= h
                /\ (tp - 1) * PageSize < h
                /\ (tp = 0 <=> h = 0)

C1_Witness ==
    \E r \in AllReqs :
        search[r].built /\ resp[r].TotalHits = 55 /\ search[r].TotalPages = 3

\* C2: for every parsed page number p >= 1, the Search value has
\* NextPage = p + 1, CurrentPage() = p and PreviousPage() = p - 1.
C2_PageNumbers ==
    \A r \in AllReqs :
        (search[r].built /\ nextPage[r] >= 1) =>
            /\ search[r].NextPage = nextPage[r] + 1
            /\ CurrentPage(search[r]) = nextPage[r]
            /\ PreviousPage(search[r]) = nextPage[r] - 1

C2_Witness ==
    \E r \in AllReqs :
        /\ search[r].built
        /\ req[r].page = <<"2">>
        /\ nextPage[r] = 2
        /\ search[r].NextPage = 3
        /\ CurrentPage(search[r]) = 2
        /\ PreviousPage(search[r]) = 1

\* C3: for every page p >= 1 and totalHits >= 1, IsLastPage() is true iff
\* CurrentPage() >= TotalPages, i.e. no page follows the displayed one.
C3_IsLastPageIffNoFurtherPage ==
    \A r \in AllReqs :
        (search[r].built /\ nextPage[r] >= 1 /\ resp[r].TotalHits >= 1) =>
            (IsLastPage(search[r]) <=> CurrentPage(search[r]) >= search[r].TotalPages)

\* C4: a page parameter that is present, non-empty and not a base-10 integer
\* makes searchHandler return the parsing error (no fallback to page 1), and
\* searchWikipedia is never called for the request.
C4_NonNumericPageIsError ==
    \A r \in AllReqs :
        (/\ Mux(req[r].path) = "searchHandler"
         /\ req[r].page # <<>>
         /\ ~IsBase10Integer(req[r].page)) =>
            /\ calls[r] = 0
            /\ resp[r] = NoResp
            /\ ~search[r].built
            /\ pc[r] \in {"returned", "deferred", "done"} => handlerErr[r] = "atoi"
            /\ pc[r] \in {"idle", "searchHandler", "returned", "deferred", "done",
                         "panicking", "aborted"}

C4_Witness ==
    \E r \in AllReqs :
        /\ req[r].path = "/search"
        /\ req[r].page = <<"a">>
        /\ pc[r] = "returned"
        /\ handlerErr[r] = "atoi"
        /\ calls[r] = 0

C6_EveryErrorYields500 ==
    \A r \in AllReqs :
        (pc[r] \in {"deferred", "done"} /\ handlerErr[r] # "nil") =>
            (HasEntry(r, "server error") /\ sent[r] = StatusInternalServerError)

\* C7: a failure while writing the rendered buffer is not escalated: no
\* "server error" entry is logged and no internal-error response is attempted
\* (the recorded status is not turned into 500).
C7_WriteFailureNotEscalated ==
    \A r \in AllReqs :
        (pc[r] \in {"returned", "deferred", "done"} /\ handlerErr[r] = "write") =>
            (~HasEntry(r, "server error") /\ statusCode[r] # StatusInternalServerError)

\* C8: with two requests in flight, each request's Search value comes from
\* its own parameters and its own upstream response, and handling a request
\* leaves the package-level state as initialization left it.
C8_RequestIsolation ==
    /\ globals = InitGlobals
    /\ \A r \in AllReqs :
          search[r].built =>
              /\ search[r].Query = req[r].q
              /\ req[r].page = <<>> => search[r].NextPage = 2
              /\ req[r].page = <<"2">> => search[r].NextPage = 3
              /\ search[r].Results = resp[r]
              /\ resp[r].srsearch = req[r].q
              /\ resp[r].sroffset = (search[r].NextPage - 2) * PageSize
              /\ search[r].TotalPages * PageSize >= resp[r].TotalHits
              /\ (search[r].TotalPages - 1) * PageSize < resp[r].TotalHits

C8_Witness ==
    \E r, s \in AllReqs :
        /\ r # s
        /\ pc[r] = "render" /\ pc[s] = "render"
        /\ search[r].built /\ search[s].built
        /\ req[r].q # req[s].q
        /\ req[r].page = <<>> /\ req[s].page = <<"2">>
        /\ search[r].Query = req[r].q /\ search[s].Query = req[s].q
        /\ resp[r].TotalHits # resp[s].TotalHits

\* C9: when a request panics below requestLogger, its recorded status is 500
\* once the panic has been re-raised, and every other request that is in
\* flight or arrives later is still handled to its end.
C9_FaultConfinement ==
    /\ [](\A r \in Reqs2 : pc[r] = "aborted" => statusCode[r] = StatusInternalServerError)
    /\ \A r, s \in Reqs2 :
          (r # s) =>
              ((pc[r] = "aborted" /\ pc[s] # "idle") ~> (pc[s] \in {"done", "aborted"}))

C9_Witness ==
    \E r, s \in AllReqs :
        /\ r # s
        /\ pc[r] = "aborted"
        /\ statusCode[r] = StatusInternalServerError
        /\ pc[s] = "done"
        /\ HasEntry(s, "incoming request")

\* C10: a request that completes without a panic has exactly one
\* "incoming request" entry, whose status_code is the status sent to the
\* client.
C10_LoggedStatusIsSentStatus ==
    \A r \in AllReqs :
        pc[r] = "done" =>
            /\ EntryCount(r, "incoming request") = 1
            /\ \A i \in 1 .. Len(log[r]) :
                  log[r][i].msg = "incoming request" => log[r][i].status = sent[r]

====
